---- MODULE Spec2Model ----
(***************************************************************************)
(* A model of Odo (src/readme.md, lines 249-606: the Odo class), the       *)
(* engine that projects a flat value array into a nested view of getters.  *)
(*                                                                         *)
(* Strings (field names, path segments, members of the unused set) are     *)
(* sequences of UTF-16 code units, so that split, join, includes, the      *)
(* implicit Array-to-string conversion and the comparison of strings by    *)
(* the sort comparator are computed as JavaScript computes them.           *)
(*                                                                         *)
(* The view is the tree of own properties below `this`: a function from    *)
(* a property path (a sequence of keys) to the property found there,       *)
(* either an accessor (holding its range spec) or a container (an object   *)
(* or an array, with an identity).  The code is a strict-mode ES module    *)
(* (src/.eslintrc.js, sourceType module), so a write to a getter-only      *)
(* property or to a property of a primitive throws a TypeError.            *)
(***************************************************************************)
EXTENDS Integers, Sequences, FiniteSets, TLC

\* ----------------------------------------------------------------------
\* Bounds of the model
\* ----------------------------------------------------------------------
\* how many operations (calls and reads) a behaviour applies to the
\* instance in Spec, SpecNested and SpecRange
MaxSteps == 5
\* the same for SpecDeep, whose inputs are fewer
MaxDeepSteps == 8

\* ----------------------------------------------------------------------
\* Strings as sequences of code units
\* ----------------------------------------------------------------------
\* '.'  the separator of fieldName.split('.') and path.join('.')
Dot == 46
\* ','  the separator Array.prototype.toString uses (string + array)
Comma == 44

\* fieldName.includes('.')
includes(str, ch) == \E k \in 1..Len(str) : str[k] = ch

RECURSIVE SplitFrom(_, _, _, _)
SplitFrom(str, ch, k, cur) ==
  IF k > Len(str) THEN <<cur>>
  ELSE IF str[k] = ch THEN <<cur>> \o SplitFrom(str, ch, k + 1, <<>>)
  ELSE SplitFrom(str, ch, k + 1, Append(cur, str[k]))

\* fieldName.split('.')
split(str, ch) == SplitFrom(str, ch, 1, <<>>)

RECURSIVE join(_, _)
\* path.join('.'); with ',' it is the string an array converts to
join(path, ch) ==
  IF Len(path) = 0 THEN <<>>
  ELSE IF Len(path) = 1 THEN path[1]
  ELSE path[1] \o <<ch>> \o join(Tail(path), ch)

RECURSIVE StrLess(_, _)
\* a < b on strings: code unit by code unit, a proper prefix is smaller
StrLess(a, b) ==
  IF Len(b) = 0 THEN FALSE
  ELSE IF Len(a) = 0 THEN TRUE
  ELSE IF a[1] < b[1] THEN TRUE
  ELSE IF a[1] > b[1] THEN FALSE
  ELSE StrLess(Tail(a), Tail(b))

\* isFinite(p) of a path segment: the segment converts to a finite number.
\* For segments over letters and digits: the empty string (0) and the
\* strings of digits.
isFinite(seg) == \A k \in 1..Len(seg) : seg[k] \in 48..57

\* the keys of a sequence-backed insertion-ordered Set
Members(seq) == {seq[k] : k \in 1..Len(seq)}

\* Set.prototype.add: a member keeps its place, a new one goes last
SetAdd(seq, x) == IF x \in Members(seq) THEN seq ELSE Append(seq, x)

\* Set.prototype.delete
SetDelete(seq, x) == SelectSeq(seq, LAMBDA y : y # x)

\* ----------------------------------------------------------------------
\* JavaScript values
\* ----------------------------------------------------------------------
\* t: "undef" | "num" | "nan" | "list" (an array of numbers, ref its
\* identity when it is a transform result) | "cont" (the container of the
\* view at path; the root is the instance itself) | "det" (an object that
\* is not part of the view)
JsVal(t, n, s, ref, path) == [t |-> t, n |-> n, s |-> s, ref |-> ref, path |-> path]
Undefined == JsVal("undef", 0, <<>>, 0, <<>>)
NaN == JsVal("nan", 0, <<>>, 0, <<>>)
Num(n) == JsVal("num", n, <<>>, 0, <<>>)
List(s, ref) == JsVal("list", 0, s, ref, <<>>)
Cont(path) == JsVal("cont", 0, <<>>, 0, path)
Detached == JsVal("det", 0, <<>>, 0, <<>>)
This == Cont(<<>>)

\* ToBoolean, as `!cursor.obj[field]` applies it
Truthy(v) == ~(v.t \in {"undef", "nan"} \/ (v.t = "num" /\ v.n = 0))

\* ArrGet with a negative index counted from the end of the array
ArrGet_FromEnd(values, i) ==
  LET k == IF i < 0 THEN Len(values) + i ELSE i
  IN  IF k >= 0 /\ k < Len(values) THEN Num(values[k + 1]) ELSE Undefined

\* values[i]: an own index of the array, or undefined
ArrGet(values, i) ==
  IF i >= 0 /\ i < Len(values) THEN Num(values[i + 1]) ELSE Undefined

Max(a, b) == IF a > b THEN a ELSE b
Min(a, b) == IF a < b THEN a ELSE b

\* RelIndex with a negative index taken as 0
RelIndex_NoNegative(i, len) == IF i < 0 THEN 0 ELSE Min(i, len)

\* the relative index of Array.prototype.slice
RelIndex(i, len) == IF i < 0 THEN Max(len + i, 0) ELSE Min(i, len)

\* values.slice(start, end)
slice(values, start, end) ==
  LET k == RelIndex(start, Len(values))
      final == RelIndex(end, Len(values))
  IN  IF final > k THEN SubSeq(values, k + 1, final) ELSE <<>>

\* ----------------------------------------------------------------------
\* Range specs and transform functions
\* ----------------------------------------------------------------------
\* A range spec as addStructure receives it.  id is the identity of the
\* range object (the key of the cache Map); kind is the shape the tests
\* of _convertRangeToGetter distinguish: "index" (a finite number),
\* "indexFn" ([i, fn]), "slice" ([s, e]), "sliceFn" ([s, e, fn]), and
\* "fn" (a bare function).
Range(id, kind, a, b, fn) == [id |-> id, kind |-> kind, a |-> a, b |-> b, fn |-> fn]
NoRange == Range(0, "none", 0, 0, "none")

\* the transform functions of the tests: (v) => v * 100 and
\* (list) => list.map((v) => v + 10); ref is the identity of the result
ApplyFn(fn, v, ref) ==
  IF fn = "times100"
    THEN IF v.t = "num" THEN JsVal("num", v.n * 100, <<>>, ref, <<>>)
         ELSE JsVal("nan", 0, <<>>, ref, <<>>)
    ELSE IF v.t = "list" THEN List([k \in 1..Len(v.s) |-> v.s[k] + 10], ref)
         ELSE JsVal("undef", 0, <<>>, ref, <<>>)

\* ----------------------------------------------------------------------
\* The instance: this.i and the properties of the view
\* ----------------------------------------------------------------------
\* a property of the view: an accessor installed by addStructure, or a
\* container ("obj" for {}, "arr" for []) created by _ensurePathStructure
Accessor(range) == [t |-> "acc", id |-> 0, range |-> range]
Container(t, id) == [t |-> t, id |-> id, range |-> NoRange]

IsPrefix(p, q) == Len(p) <= Len(q) /\ SubSeq(q, 1, Len(p)) = p

\* the view without the property at path q and everything below it
RemoveSubtree(view, q) ==
  [p \in {r \in DOMAIN view : ~IsPrefix(q, r)} |-> view[p]]

\* `const v = value; ...`: the statements Body see the value computed once
Bind(value, Body(_)) == CHOOSE out \in { Body(v) : v \in {value} } : TRUE

\* what an operation returns: the value and the instance after it
Ret(val, s) == [val |-> val, s |-> s]

\* the string of a numeric key as an array index
RECURSIVE ToIndex(_)
ToIndex(seg) ==
  IF Len(seg) = 0 THEN 0
  ELSE 10 * ToIndex(SubSeq(seg, 1, Len(seg) - 1)) + (seg[Len(seg)] - 48)

\* cachedValue without the this.i.cached.set(cacheKey, val)
cachedValue_NoStore(s, range, raw) ==
  IF range.id \in DOMAIN s.cached
    THEN Ret(s.cached[range.id], s)
    ELSE Ret(ApplyFn(range.fn, raw, s.nextRef + 1), [s EXCEPT !.nextRef = @ + 1])

\* _cachedValue(valueFn, cacheKey)(): the cached result if the key is in
\* the Map, otherwise the transform is invoked and its result stored
cachedValue(s, range, raw) ==
  IF range.id \in DOMAIN s.cached
    THEN Ret(s.cached[range.id], s)
    ELSE LET val == ApplyFn(range.fn, raw, s.nextRef + 1)
         IN  Ret(val, [s EXCEPT !.cached = (range.id :> val) @@ @,
                                !.nextRef = @ + 1])

\* the property `i` the constructor defines on the instance (configurable,
\* not enumerable), and the object it holds: values, fields, unused, cached
HolderKey == <<105>>
Holder == JsVal("holder", 0, <<>>, 0, <<>>)

\* what evaluating `this.i` ends with.  The property is the holder until an
\* accessor is defined over it; from then on a getter that itself reads
\* this.i re-enters until the stack overflows (a RangeError), and the
\* result of a bare function has none of values, fields, unused and cached
\* (a TypeError on the first use).  The pools declare i as a top-level
\* field only: no path leads under the holder.
HolderError(s) ==
  IF <<HolderKey>> \notin DOMAIN s.view \/ s.view[<<HolderKey>>].t # "acc" THEN "none"
  ELSE IF s.view[<<HolderKey>>].range.kind = "fn" THEN "TypeError"
  ELSE "RangeError"

\* _convertRangeToGetter(range, existingValue): the getter of a bare
\* function closes over the value the slot held; the other getters do not
\* use it
Closure(range, existingValue) ==
  IF range.kind = "fn"
    THEN [id |-> range.id, kind |-> range.kind, a |-> range.a, b |-> range.b,
          fn |-> range.fn, existingValue |-> existingValue]
    ELSE range

\* convertRangeToGetter with the result of a bare function cached under
\* the function
convertRangeToGetter_CacheBare(s, range) ==
  CASE range.kind = "fn" -> cachedValue(s, range, range.existingValue)
    [] range.kind = "index" -> Ret(ArrGet(s.values, range.a), s)
    [] range.kind = "indexFn" -> cachedValue(s, range, ArrGet(s.values, range.a))
    [] range.kind = "sliceFn" ->
         cachedValue(s, range, List(slice(s.values, range.a, range.b), 0))
    [] OTHER -> Ret(List(slice(s.values, range.a, range.b), 0), s)

\* the getter _convertRangeToGetter(range) returns, invoked
convertRangeToGetter(s, range) ==
  CASE range.kind = "fn" ->
         Ret(ApplyFn(range.fn, range.existingValue, s.nextRef + 1),
             [s EXCEPT !.nextRef = @ + 1])
    [] range.kind # "fn" /\ HolderError(s) # "none" ->
         Ret(Undefined, [s EXCEPT !.err = HolderError(s)])
    [] range.kind = "index" -> Ret(ArrGet(s.values, range.a), s)
    [] range.kind = "indexFn" -> cachedValue(s, range, ArrGet(s.values, range.a))
    [] range.kind = "sliceFn" ->
         cachedValue(s, range, List(slice(s.values, range.a, range.b), 0))
    [] OTHER -> Ret(List(slice(s.values, range.a, range.b), 0), s)

\* obj[key]: the property read, invoking the getter of an accessor
GetProp(s, obj, key) ==
  CASE obj.t = "cont" ->
         LET q == Append(obj.path, key)
         IN  IF q \notin DOMAIN s.view
               THEN Ret(IF q = <<HolderKey>> THEN Holder ELSE Undefined, s)
             ELSE IF s.view[q].t = "acc"
               THEN convertRangeToGetter(s, s.view[q].range)
               ELSE Ret(Cont(q), s)
    [] obj.t = "list" ->
         IF Len(key) > 0 /\ isFinite(key)
           THEN Ret(ArrGet(obj.s, ToIndex(key)), s)
           ELSE Ret(Undefined, s)
    [] OTHER -> Ret(Undefined, s)

\* delete obj[key]: removes the own property; nothing to do (and no
\* error) on a primitive or on an object outside the view
DeleteProp(s, obj, key) ==
  IF obj.t = "cont"
    THEN [s EXCEPT !.view = RemoveSubtree(@, Append(obj.path, key))]
    ELSE s

\* Object.defineProperty(obj, key, { get, enumerable, configurable }):
\* replaces whatever the property held; throws on a primitive
DefineProperty(s, obj, key, range) ==
  CASE obj.t = "cont" ->
         LET q == Append(obj.path, key)
         IN  [s EXCEPT !.view = (q :> Accessor(range)) @@ RemoveSubtree(@, q)]
    [] obj.t \in {"list", "det"} -> s
    [] OTHER -> [s EXCEPT !.err = "TypeError"]

\* ----------------------------------------------------------------------
\* Path resolution
\* ----------------------------------------------------------------------
Front(seq) == SubSeq(seq, 1, Len(seq) - 1)
Last(seq) == seq[Len(seq)]

\* a cursor: the object reached, the instance, and the error thrown
Cursor(obj, s, rebuiltPath) == [obj |-> obj, s |-> s, rebuiltPath |-> rebuiltPath]

\* `cursor.obj[key] = isNextKeyNumeric ? [] : {}` of _ensurePathStructure
\* for a key whose value read as undefined.  In strict mode the write
\* throws on a getter-only accessor and on a primitive.
AssignContainer(s, obj, key, isNextKeyNumeric) ==
  CASE obj.t = "cont" ->
         LET q == Append(obj.path, key)
         IN  IF q \in DOMAIN s.view THEN [s EXCEPT !.err = "TypeError"]
             ELSE [s EXCEPT
                     !.view = (q :> Container(IF isNextKeyNumeric THEN "arr" ELSE "obj",
                                              s.nextId + 1)) @@ @,
                     !.nextId = @ + 1]
    [] obj.t \in {"list", "det"} -> s
    [] OTHER -> [s EXCEPT !.err = "TypeError"]

\* one iteration of the loop of _ensurePathStructure, index counted from 0
EnsureStep(c, path, index) ==
  LET key == path[index + 1]
      isNextKeyNumeric == index + 2 <= Len(path) /\ isFinite(path[index + 2])
      rebuiltPath == c.rebuiltPath
                       \o (IF c.rebuiltPath # <<>> THEN <<Dot>> ELSE <<>>)
                       \o join(path, Comma)
  IN  Bind(GetProp(c.s, c.obj, key), LAMBDA first :
        Bind(IF first.val.t = "undef"
               THEN AssignContainer(first.s, c.obj, key, isNextKeyNumeric)
               ELSE first.s, LAMBDA s1 :
          IF s1.err # "none" THEN Cursor(c.obj, s1, c.rebuiltPath)
          ELSE Bind(GetProp(s1, c.obj, key), LAMBDA second :
                 Cursor(IF first.val.t = "undef" /\ c.obj.t \in {"list", "det"}
                          THEN Detached ELSE second.val,
                        [second.s EXCEPT !.unused = SetDelete(@, rebuiltPath)],
                        rebuiltPath))))

RECURSIVE EnsureLoop(_, _, _)
EnsureLoop(c, path, index) ==
  IF index >= Len(path) \/ c.s.err # "none" THEN c
  ELSE Bind(EnsureStep(c, path, index), LAMBDA next :
         EnsureLoop(next, path, index + 1))

\* _ensurePathStructure(path): the cursor to the parent of the last key
ensurePathStructure(s, path) == EnsureLoop(Cursor(This, s, <<>>), Front(path), 0)

\* one iteration of the loop of _getCursorToEndOfPath
CursorStep(c, field) ==
  Bind(GetProp(c.s, c.obj, field), LAMBDA first :
    IF ~Truthy(first.val)
      THEN Cursor(c.obj, [first.s EXCEPT !.err = "OdoError"], c.rebuiltPath)
      ELSE Bind(GetProp(first.s, c.obj, field), LAMBDA second :
             Cursor(second.val, second.s, c.rebuiltPath)))

RECURSIVE CursorLoop(_, _, _)
CursorLoop(c, path, k) ==
  IF k > Len(path) \/ c.s.err # "none" THEN c
  ELSE Bind(CursorStep(c, path[k]), LAMBDA next : CursorLoop(next, path, k + 1))

\* _getCursorToEndOfPath(path)
getCursorToEndOfPath(s, path) == CursorLoop(Cursor(This, s, <<>>), Front(path), 1)

\* ----------------------------------------------------------------------
\* The operations
\* ----------------------------------------------------------------------
\* setValues without the this.i.cached.clear()
setValues_KeepCache(s, values) == [s EXCEPT !.values = values]

\* setValues that also clears the unused set
setValues_ClearUnused(s, values) ==
  [s EXCEPT !.values = values, !.cached = <<>>, !.unused = <<>>]

\* setValues(values)
setValues(s, values) ==
  IF HolderError(s) # "none" THEN [s EXCEPT !.err = HolderError(s)]
  ELSE [s EXCEPT !.values = values, !.cached = <<>>]

\* the comparator addStructure hands to sort, on the keys of two entries
Compare(a, b) == IF StrLess(b, a) THEN -1 ELSE IF StrLess(a, b) THEN 1 ELSE 0

\* one entry put in its place in a sorted array: after every entry the
\* comparator does not put behind it
RECURSIVE Insert(_, _)
Insert(sorted, x) ==
  IF sorted = <<>> THEN <<x>>
  ELSE IF Compare(x, sorted[1]) < 0 THEN <<x>> \o sorted
  ELSE <<sorted[1]>> \o Insert(Tail(sorted), x)

\* [...Object.entries(structure)].sort(comparator), on the keys in the
\* order Object.entries lists them
RECURSIVE SortEntries(_)
SortEntries(keys) ==
  IF keys = <<>> THEN <<>>
  ELSE Insert(SortEntries(SubSeq(keys, 1, Len(keys) - 1)), keys[Len(keys)])

\* SortDescending with the comparator putting the lesser string first
RECURSIVE SortDescending_Reversed(_)
SortDescending_Reversed(keys) ==
  IF keys = {} THEN <<>>
  ELSE LET top == CHOOSE k \in keys : \A o \in keys \ {k} : StrLess(k, o)
       IN  <<top>> \o SortDescending_Reversed(keys \ {top})

RECURSIVE SortDescending(_)
\* the keys of the structure in the order the sort leaves them: the
\* comparator puts the greater string first
SortDescending(keys) ==
  IF keys = {} THEN <<>>
  ELSE LET top == CHOOSE k \in keys : \A o \in keys \ {k} : StrLess(o, k)
       IN  <<top>> \o SortDescending(keys \ {top})

\* the body of the for loop of addStructure for one entry
AddEntry(s, fieldName, range) ==
  LET isPath == includes(fieldName, Dot)
      path == split(fieldName, Dot)
      key == IF isPath THEN Last(path) ELSE fieldName
  IN  IF HolderError(s) # "none" THEN [s EXCEPT !.err = HolderError(s)]
      ELSE
      Bind([s EXCEPT !.fields = SetAdd(@, fieldName)], LAMBDA s1 :
        Bind(IF isPath THEN ensurePathStructure(s1, path)
             ELSE Cursor(This, s1, <<>>), LAMBDA c :
          IF c.s.err # "none" THEN c.s
          ELSE Bind(GetProp(c.s, c.obj, key), LAMBDA existingValue :
                 DefineProperty(existingValue.s, c.obj, key,
                                Closure(range, existingValue.val)))))

RECURSIVE AddEntries(_, _, _)
AddEntries(s, structure, entries) ==
  IF entries = <<>> \/ s.err # "none" THEN s
  ELSE Bind(AddEntry(s, entries[1], structure[entries[1]]), LAMBDA next :
         AddEntries(next, structure, Tail(entries)))

\* addStructure(structure)
addStructure(s, structure) ==
  Bind(SortDescending(DOMAIN structure), LAMBDA entries :
    AddEntries(s, structure, entries))

\* ResetField without the `delete this[fieldName]` of a top-level field
ResetField_PathsOnly(s, fieldName) ==
  LET isPath == includes(fieldName, Dot)
      path == split(fieldName, Dot)
      unusedPath == join(Front(path), Dot)
  IN  IF ~isPath THEN s
      ELSE Bind(getCursorToEndOfPath(s, path), LAMBDA cursor :
             IF cursor.s.err # "none" THEN cursor.s
             ELSE DeleteProp([cursor.s EXCEPT !.unused = SetAdd(@, unusedPath)],
                             cursor.obj, Last(path)))

\* the body of the for loop of resetStructure for one field name
ResetField(s, fieldName) ==
  LET isPath == includes(fieldName, Dot)
      path == split(fieldName, Dot)
      unusedPath == join(Front(path), Dot)
  IN  IF ~isPath THEN DeleteProp(s, This, fieldName)
      ELSE Bind(getCursorToEndOfPath(s, path), LAMBDA cursor :
             IF cursor.s.err # "none" THEN cursor.s
             ELSE DeleteProp([cursor.s EXCEPT !.unused = SetAdd(@, unusedPath)],
                             cursor.obj, Last(path)))

RECURSIVE ResetFields(_, _)
ResetFields(s, names) ==
  IF names = <<>> \/ s.err # "none" THEN s
  ELSE Bind(ResetField(s, names[1]), LAMBDA next : ResetFields(next, Tail(names)))

\* resetStructure()
resetStructure(s) ==
  IF HolderError(s) # "none" THEN [s EXCEPT !.err = HolderError(s)]
  ELSE
  Bind(ResetFields([s EXCEPT !.unused = <<>>, !.cached = <<>>], s.fields),
       LAMBDA s2 : IF s2.err # "none" THEN s2 ELSE [s2 EXCEPT !.fields = <<>>])

\* Array.isArray(field) for a member of the unused set: the members are
\* the strings resetStructure adds
ArrayIsArray(field) == FALSE

\* the body of the for loop of removeUnusedStructure for one member
RemoveUnusedField(s, field) ==
  IF ArrayIsArray(field)
    THEN Bind(getCursorToEndOfPath(s, field), LAMBDA cursor :
           IF cursor.s.err # "none" THEN cursor.s
           ELSE DeleteProp(cursor.s, cursor.obj, Last(field)))
    ELSE DeleteProp(s, This, field)

RECURSIVE RemoveUnusedFields(_, _)
RemoveUnusedFields(s, members) ==
  IF members = <<>> \/ s.err # "none" THEN s
  ELSE Bind(RemoveUnusedField(s, members[1]), LAMBDA next :
         RemoveUnusedFields(next, Tail(members)))

\* removeUnusedStructure()
removeUnusedStructure(s) ==
  IF HolderError(s) # "none" THEN [s EXCEPT !.err = HolderError(s)]
  ELSE
  Bind(RemoveUnusedFields(s, s.unused), LAMBDA s1 :
    IF s1.err # "none" THEN s1 ELSE [s1 EXCEPT !.unused = <<>>])

\* setStructure(structure)
setStructure(s, structure) ==
  Bind(resetStructure(s), LAMBDA s1 :
    IF s1.err # "none" THEN s1
    ELSE Bind(addStructure(s1, structure), LAMBDA s2 :
           IF s2.err # "none" THEN s2 ELSE removeUnusedStructure(s2)))

\* `this.a.b.c` read by the caller: every segment is a property read; a
\* property read of undefined throws a TypeError
RECURSIVE ReadLoop(_, _, _)
ReadLoop(r, path, k) ==
  IF k > Len(path) \/ r.s.err # "none" THEN r
  ELSE IF r.val.t = "undef" THEN Ret(Undefined, [r.s EXCEPT !.err = "TypeError"])
  ELSE Bind(GetProp(r.s, r.val, path[k]), LAMBDA next : ReadLoop(next, path, k + 1))

ReadField(s, fieldName) ==
  Bind(split(fieldName, Dot), LAMBDA path : ReadLoop(Ret(This, s), path, 1))

\* ----------------------------------------------------------------------
\* export(): JSON.parse(JSON.stringify(this))
\* ----------------------------------------------------------------------
\* a value of the parsed JSON text
Json(t, n, s) == [t |-> t, n |-> n, s |-> s]

\* a property key that is an array index: a canonical decimal string
IsIndex(seg) ==
  /\ Len(seg) > 0
  /\ \A k \in 1..Len(seg) : seg[k] \in 48..57
  /\ Len(seg) = 1 \/ seg[1] # 48

\* the key of the array index k
RECURSIVE ToSegment(_)
ToSegment(k) == IF k < 10 THEN <<48 + k>> ELSE Append(ToSegment(k \div 10), 48 + (k % 10))

\* the properties JSON.stringify reaches: the own properties of `this`
\* (the holder i is not enumerable) and, under them, every property of a
\* {} container and the index properties of a [] container
Serialised(view) ==
  {p \in DOMAIN view :
     \A k \in 1..(Len(p) - 1) :
       /\ SubSeq(p, 1, k) \in DOMAIN view
       /\ view[SubSeq(p, 1, k)].t = "arr" => IsIndex(p[k + 1])}

\* the length of the [] container at path q: one more than its greatest
\* index property
LengthOf(view, q) ==
  LET indexes == {ToIndex(p[Len(p)]) :
                    p \in {r \in DOMAIN view : Len(r) = Len(q) + 1 /\ IsPrefix(q, r)
                                                 /\ IsIndex(r[Len(r)])}}
  IN  IF indexes = {} THEN 0 ELSE (CHOOSE m \in indexes : \A o \in indexes : o <= m) + 1

\* the holes of the [] containers JSON.stringify reaches: they are
\* written as null
Holes(view) ==
  UNION {{Append(q, ToSegment(k)) : k \in 0..(LengthOf(view, q) - 1)} \ DOMAIN view :
           q \in {r \in Serialised(view) : view[r].t = "arr"}}

\* JsonOf writing null for undefined in a {} container too
JsonOf_NullForAbsent(v, inArray) ==
  CASE v.t = "num" -> <<Json("num", v.n, <<>>)>>
    [] v.t = "list" -> <<Json("list", 0, v.s)>>
    [] OTHER -> <<Json("null", 0, <<>>)>>

\* what JSON.stringify writes for the value a getter returned: nothing
\* for undefined in a {} container, null for undefined in a [] container
\* and for NaN
JsonOf(v, inArray) ==
  CASE v.t = "num" -> <<Json("num", v.n, <<>>)>>
    [] v.t = "list" -> <<Json("list", 0, v.s)>>
    [] v.t = "nan" -> <<Json("null", 0, <<>>)>>
    [] v.t = "undef" /\ inArray -> <<Json("null", 0, <<>>)>>
    [] OTHER -> <<>>

\* the getters of the accessors JSON.stringify reaches, invoked one after
\* the other; the order only decides the identities of the transform
\* results that the getters put in the cache
RECURSIVE ExportLoop(_, _)
ExportLoop(acc, names) ==
  IF names = <<>> \/ acc.s.err # "none" THEN acc
  ELSE Bind(split(names[1], Dot), LAMBDA p :
         Bind(GetProp(acc.s, Cont(Front(p)), Last(p)), LAMBDA r :
           Bind(JsonOf(r.val, Len(p) > 1 /\ acc.s.view[Front(p)].t = "arr"), LAMBDA json :
             ExportLoop(Ret(IF json = <<>> THEN acc.val ELSE (p :> json[1]) @@ acc.val,
                            r.s),
                        Tail(names)))))

\* export(): the parsed text, by property path
Export(s) ==
  LET reached == Serialised(s.view)
      containers == [p \in {q \in reached : s.view[q].t # "acc"} |->
                       Json(s.view[p].t, 0, <<>>)]
      holes == [p \in Holes(s.view) |-> Json("null", 0, <<>>)]
  IN  ExportLoop(Ret(containers @@ holes, s),
                 SortDescending({join(p, Dot) : p \in {q \in reached : s.view[q].t = "acc"}}))

\* ----------------------------------------------------------------------
\* The inputs of the model
\* ----------------------------------------------------------------------
\* field names: a, b, x, l, a.b, a.c, a.b.c, a.c.d
Fa == <<97>>
Fb == <<98>>
Fx == <<120>>
Fl == <<108>>
Fab == <<97, 46, 98>>
Fac == <<97, 46, 99>>
Fabc == <<97, 46, 98, 46, 99>>
Facd == <<97, 46, 99, 46, 100>>

\* range specs; a number and a plain [s, e] are never used as cache keys
Index0 == Range(0, "index", 0, 0, "none")
Index1 == Range(0, "index", 1, 0, "none")
Index5 == Range(0, "index", 5, 0, "none")
Slice13 == Range(0, "slice", 1, 3, "none")
SliceNeg == Range(0, "slice", -2, 9, "none")
Times100 == Range(11, "indexFn", 0, 0, "times100")
Times100b == Range(12, "indexFn", 1, 0, "times100")
Plus10 == Range(13, "sliceFn", 1, 3, "plus10")

\* the structures declared in the behaviours of Spec: flat fields of every
\* cached and uncached shape, a path re-declared with another range
\* object, and one nested structure
Structures ==
  { (Fa :> Times100) @@ (Fb :> Index1) @@ (Fl :> Plus10),
    (Fa :> Times100b),
    (Fx :> Slice13) @@ (Fb :> Index5) @@ (Fl :> SliceNeg),
    (Fab :> Index0) @@ (Fac :> Times100b) }

ValuesPool == { <<11, 12, 13>>, <<111, 112, 113>>, <<0, 12>> }

\* the structures declared in the behaviours of SpecNested: paths of
\* depth one to three that share, replace and abandon containers
NestedStructures ==
  { (Fab :> Index0) @@ (Fac :> Index1),
    (Fabc :> Index1),
    (Fx :> Index1),
    (Fa :> Index0),
    (Fab :> Index1) @@ (Facd :> Index0) }

NestedValuesPool == { <<11, 12>>, <<0, 12>> }

\* ----------------------------------------------------------------------
\* The state machine
\* ----------------------------------------------------------------------
\* values, fields, unused, cached: this.i; view: the own properties of the
\* instance; nextId, nextRef: the identities handed out so far to
\* containers and to transform results; last: the operation that led to
\* this state; seen: the transform results that the reads since the last
\* setValues, resetStructure or setStructure returned, by field, with
\* mild set once an addStructure or removeUnusedStructure call came
\* after the read; budget: the operations the behaviour may still apply
VARIABLES values, fields, unused, cached, view, nextId, nextRef, last, seen, budget

vars == <<values, fields, unused, cached, view, nextId, nextRef, last, seen, budget>>

State ==
  [values |-> values, fields |-> fields, unused |-> unused, cached |-> cached,
   view |-> view, nextId |-> nextId, nextRef |-> nextRef, err |-> "none"]

\* the record of an operation: its name, its structure argument, the
\* field read, the error thrown, the value returned, whether a transform
\* function ran, whether the read repeats one recorded in seen, the
\* registry before the call, whether the cache held an entry before, the
\* operation before this one, and the containers of the view before the
\* call, each with its identity
Op(op, st, f, r, res, again) ==
  [op |-> op, st |-> st, f |-> f, err |-> r.err, res |-> res,
   invoked |-> r.nextRef # nextRef, again |-> again,
   was |-> fields, warm |-> DOMAIN cached # {}, prev |-> last.op,
   conts |-> {<<p, view[p].id>> : p \in {q \in DOMAIN view : view[q].t # "acc"}}]

Commit(r) ==
  /\ budget > 0
  /\ budget' = budget - 1
  /\ values' = r.values
  /\ fields' = r.fields
  /\ unused' = r.unused
  /\ cached' = r.cached
  /\ view' = r.view
  /\ nextId' = r.nextId
  /\ nextRef' = r.nextRef

\* the reads recorded in seen are from before a structure operation
Aged == [f \in DOMAIN seen |-> [seen[f] EXCEPT !.mild = TRUE]]

\* new Odo()
Constructed ==
  /\ values = <<>>
  /\ fields = <<>>
  /\ unused = <<>>
  /\ cached = <<>>
  /\ view = <<>>
  /\ nextId = 0
  /\ nextRef = 0
  /\ last = [op |-> "new", st |-> <<>>, f |-> <<>>, err |-> "none",
             res |-> Undefined, invoked |-> FALSE, again |-> FALSE,
             was |-> <<>>, warm |-> FALSE, prev |-> "new", conts |-> {}]
  /\ seen = <<>>

Init == Constructed /\ budget = MaxSteps

InitDeep == Constructed /\ budget = MaxDeepSteps

SetValues(v) ==
  \E r \in { setValues(State, v) } :
      /\ Commit(r)
      /\ last' = Op("setValues", <<>>, <<>>, r, Undefined, FALSE)
      /\ seen' = <<>>

AddStructure(structure) ==
  \E r \in { addStructure(State, structure) } :
      /\ Commit(r)
      /\ last' = Op("addStructure", structure, <<>>, r, Undefined, FALSE)
      /\ seen' = Aged

ResetStructure ==
  \E r \in { resetStructure(State) } :
      /\ Commit(r)
      /\ last' = Op("resetStructure", <<>>, <<>>, r, Undefined, FALSE)
      /\ seen' = <<>>

SetStructure(structure) ==
  \E r \in { setStructure(State, structure) } :
      /\ Commit(r)
      /\ last' = Op("setStructure", structure, <<>>, r, Undefined, FALSE)
      /\ seen' = <<>>

RemoveUnusedStructure ==
  \E r \in { removeUnusedStructure(State) } :
      /\ Commit(r)
      /\ last' = Op("removeUnusedStructure", <<>>, <<>>, r, Undefined, FALSE)
      /\ seen' = Aged

\* a read of a registered field through the view
Read(f) ==
  \E r \in { ReadField(State, f) } :
      /\ Commit(r.s)
      /\ last' = Op("read", <<>>, f, r.s, r.val,
                    f \in DOMAIN seen /\ ~seen[f].mild)
      /\ seen' = IF r.s.err = "none" /\ r.val.ref > 0
                   THEN (f :> [res |-> r.val, mild |-> FALSE]) @@ seen
                   ELSE seen

\* export()
ExportView ==
  \E r \in { Export(State) } :
      /\ Commit(r.s)
      /\ last' = Op("export", <<>>, <<>>, r.s, r.val, FALSE)
      /\ seen' = seen

Next ==
  \/ \E v \in ValuesPool : SetValues(v)
  \/ \E structure \in Structures : AddStructure(structure)
  \/ ResetStructure
  \/ \E structure \in Structures : SetStructure(structure)
  \/ RemoveUnusedStructure
  \/ \E f \in Members(fields) : Read(f)

Spec == Init /\ [][Next]_vars

NextNested ==
  \/ \E v \in NestedValuesPool : SetValues(v)
  \/ \E structure \in NestedStructures : AddStructure(structure)
  \/ ResetStructure
  \/ \E structure \in NestedStructures : SetStructure(structure)
  \/ RemoveUnusedStructure
  \/ \E f \in Members(fields) : Read(f)

SpecNested == Init /\ [][NextNested]_vars

\* SpecDeep: three structures over the one container chain a, a.b, and
\* longer behaviours
DeepStructures == { (Fab :> Index0), (Fabc :> Index1), (Fa :> Index0) }

DeepValuesPool == { <<11, 12>> }

NextDeep ==
  \/ \E v \in DeepValuesPool : SetValues(v)
  \/ \E structure \in DeepStructures : AddStructure(structure)
  \/ ResetStructure
  \/ \E structure \in DeepStructures : SetStructure(structure)
  \/ RemoveUnusedStructure
  \/ \E f \in Members(fields) : Read(f)

SpecDeep == InitDeep /\ [][NextDeep]_vars

\* SpecRange: one field x declared with any index or any slice between
\* -MaxBound and MaxBound, read against value sequences of every length
\* up to MaxLen
MaxLen == 3
MaxBound == 4

RangeStructures ==
  { Fx :> Range(0, "index", i, 0, "none") : i \in -MaxBound..MaxBound }
    \cup { Fx :> Range(0, "slice", st, en, "none") :
             st \in -MaxBound..MaxBound, en \in -MaxBound..MaxBound }

RangeValuesPool == { [k \in 1..n |-> 10 * k + 1] : n \in 0..MaxLen }

NextRange ==
  \/ \E v \in RangeValuesPool : SetValues(v)
  \/ \E structure \in RangeStructures : SetStructure(structure)
  \/ \E f \in Members(fields) : Read(f)

SpecRange == Init /\ [][NextRange]_vars

\* ----------------------------------------------------------------------
\* Vocabulary of the properties
\* ----------------------------------------------------------------------
\* SpecShape: paths with numeric segments, a path declared together with
\* a path under it, and export()
Fa0 == <<97, 46, 48>>
Fa0b == <<97, 46, 48, 46, 98>>
Fa1b == <<97, 46, 49, 46, 98>>

ShapeStructures ==
  { (Fa0 :> Index0),
    (Fa0b :> Index1),
    (Fa1b :> Index0),
    (Fa :> Index0) @@ (Fab :> Index1),
    (Fab :> Index0) @@ (Fx :> Index5) }

ShapeValuesPool == { <<11, 12>> }

NextShape ==
  \/ \E v \in ShapeValuesPool : SetValues(v)
  \/ \E structure \in ShapeStructures : AddStructure(structure)
  \/ ResetStructure
  \/ \E structure \in ShapeStructures : SetStructure(structure)
  \/ RemoveUnusedStructure
  \/ \E f \in Members(fields) : Read(f)
  \/ ExportView

SpecShape == Init /\ [][NextShape]_vars

\* SpecBare: fields declared with a bare function, over an empty slot,
\* over an index field, and over the container of a path declared with it
BareFn == Range(14, "fn", 0, 0, "times100")

BareStructures ==
  { (Fa :> Index0),
    (Fa :> BareFn),
    (Fab :> Index1) @@ (Fa :> BareFn),
    (Fab :> BareFn) }

BareValuesPool == { <<11, 12>>, <<111, 112>> }

NextBare ==
  \/ \E v \in BareValuesPool : SetValues(v)
  \/ \E structure \in BareStructures : AddStructure(structure)
  \/ ResetStructure
  \/ \E structure \in BareStructures : SetStructure(structure)
  \/ RemoveUnusedStructure
  \/ \E f \in Members(fields) : Read(f)

SpecBare == Init /\ [][NextBare]_vars

\* SpecHolder: structures that declare a field named as the holder of
\* the internal state, i, alone and next to other fields
Fi == HolderKey

HolderStructures ==
  { (Fi :> Index0),
    (Fa :> Index1),
    (Fi :> Index0) @@ (Fa :> Index1),
    (Fab :> Index0) }

HolderValuesPool == { <<11, 12>>, <<111, 112>> }

NextHolder ==
  \/ \E v \in HolderValuesPool : SetValues(v)
  \/ \E structure \in HolderStructures : AddStructure(structure)
  \/ ResetStructure
  \/ \E structure \in HolderStructures : SetStructure(structure)
  \/ RemoveUnusedStructure
  \/ \E f \in Members(fields) : Read(f)
  \/ ExportView

SpecHolder == Init /\ [][NextHolder]_vars

AccessorPaths(v) == {p \in DOMAIN v : v[p].t = "acc"}
ContainerPaths(v) == {p \in DOMAIN v : v[p].t # "acc"}
PathsOf(structure) == {split(f, Dot) : f \in DOMAIN structure}
ProperPrefixes(p) == {SubSeq(p, 1, k) : k \in 1..(Len(p) - 1)}

\* the element at offset i of the sequence, absent outside its bounds
ElementAt(V, i) == IF i >= 0 /\ i < Len(V) THEN Num(V[i + 1]) ELSE Undefined

\* an offset of the slice convention: negative counts from the end, and
\* the result is clamped to the sequence
Clamped(i, len) ==
  LET fromEnd == IF i < 0 THEN len + i ELSE i
  IN  IF fromEnd < 0 THEN 0 ELSE IF fromEnd > len THEN len ELSE fromEnd

\* the half-open slice of V from s to e
HalfOpen(V, s, e) ==
  LET from == Clamped(s, Len(V))
      to == Clamped(e, Len(V))
  IN  [k \in 1..(IF to > from THEN to - from ELSE 0) |-> V[from + k]]

\* a range spec evaluated against the sequence V
Expected(range, V) ==
  CASE range.kind = "index" -> ElementAt(V, range.a)
    [] range.kind = "indexFn" -> ApplyFn(range.fn, ElementAt(V, range.a), 0)
    [] range.kind = "sliceFn" ->
         ApplyFn(range.fn, List(HalfOpen(V, range.a, range.b), 0), 0)
    [] OTHER -> List(HalfOpen(V, range.a, range.b), 0)

\* the same value, whatever object carries it
SameValue(x, y) == x.t = y.t /\ x.n = y.n /\ x.s = y.s

\* the range spec of the accessor a field name leads to
RangeOf(f) ==
  IF split(f, Dot) \in AccessorPaths(view) THEN view[split(f, Dot)].range ELSE NoRange

\* the view has exactly the shape the structure declares: its fields with
\* their range specs, the containers on the way to them, and nothing else
ExactShape(v, structure) ==
  /\ DOMAIN v = PathsOf(structure)
                  \cup UNION {ProperPrefixes(p) : p \in PathsOf(structure)}
  /\ \A f \in DOMAIN structure : v[split(f, Dot)] = Accessor(structure[f])

\* ----------------------------------------------------------------------
\* C1
\* ----------------------------------------------------------------------
\* C1: right after a setValues(V') call, a read of every installed index,
\* slice and transform-bearing field returns its range spec evaluated
\* against V', with no structure operation in between.
C1_ReadsFollowSetValues ==
  last.op = "setValues" =>
    \A p \in AccessorPaths(view) :
      LET r == ReadField(State, join(p, Dot))
      IN  /\ r.s.err = "none"
          /\ SameValue(r.val, Expected(view[p].range, values))

\* setValues was called on a warm cache with a transform-bearing field
\* installed
C1_Witness ==
  /\ last.op = "setValues"
  /\ last.warm
  /\ values # <<>>
  /\ \E p \in AccessorPaths(view) : view[p].range.kind \in {"indexFn", "sliceFn"}
  /\ \E p \in AccessorPaths(view) : view[p].range.kind = "index"

\* ----------------------------------------------------------------------
\* C2
\* ----------------------------------------------------------------------
\* C2 (as claimed): a read of a field that returned a transform result
\* before, with no setValues, resetStructure or setStructure call since,
\* returns that very result and invokes no transform function.
C2_Original ==
  [][(last'.op = "read" /\ last'.f \in DOMAIN seen)
       => /\ last'.err = "none"
          /\ last'.res = seen[last'.f].res
          /\ ~last'.invoked]_vars

\* C2 (amended): the same when no addStructure and no
\* removeUnusedStructure call came between the two reads either.
C2_RepeatedRead ==
  [][(last'.op = "read" /\ last'.f \in DOMAIN seen /\ ~seen[last'.f].mild)
       => /\ last'.err = "none"
          /\ last'.res = seen[last'.f].res
          /\ ~last'.invoked]_vars

\* a transform-bearing field was read a second time
C2_Witness ==
  /\ last.op = "read"
  /\ last.again
  /\ last.res.ref > 0
  /\ RangeOf(last.f).kind \in {"indexFn", "sliceFn"}

\* ----------------------------------------------------------------------
\* C3
\* ----------------------------------------------------------------------
\* C3: a read of a field declared with a single index i returns V[i], and
\* returns an absent value, without an error, when i is outside V.
C3_IndexRead ==
  (last.op = "read" /\ RangeOf(last.f).kind = "index") =>
    /\ last.err = "none"
    /\ last.res = (IF RangeOf(last.f).a >= 0 /\ RangeOf(last.f).a < Len(values)
                     THEN Num(values[RangeOf(last.f).a + 1])
                     ELSE Undefined)

\* an index field was read inside the bounds of a sequence of two or more
C3_Witness ==
  /\ last.op = "read"
  /\ RangeOf(last.f).kind = "index"
  /\ RangeOf(last.f).a > 0
  /\ RangeOf(last.f).a < Len(values)
  /\ last.res.t = "num"

\* ----------------------------------------------------------------------
\* C4
\* ----------------------------------------------------------------------
\* C4: a read of a field declared with [s, e] returns the elements
\* V[s'] .. V[e'-1] in order, s' and e' being s and e counted from the end
\* when negative and clamped to the sequence.
C4_SliceRead ==
  (last.op = "read" /\ RangeOf(last.f).kind = "slice") =>
    /\ last.err = "none"
    /\ last.res.t = "list"
    /\ last.res.s = HalfOpen(values, RangeOf(last.f).a, RangeOf(last.f).b)

\* a slice with a negative start and a negative end returned elements
C4_Witness ==
  /\ last.op = "read"
  /\ RangeOf(last.f).kind = "slice"
  /\ RangeOf(last.f).a < 0
  /\ RangeOf(last.f).b < 0
  /\ Len(last.res.s) = 2

\* ----------------------------------------------------------------------
\* C5
\* ----------------------------------------------------------------------
\* C5: after setStructure(S1) followed by setStructure(S2) the view has
\* exactly the shape S2 declares: every field of S2 with its range spec,
\* and no field or container that only S1 declared.
C5_Original ==
  [][(/\ last.op = "setStructure" /\ last.err = "none"
      /\ last'.op = "setStructure" /\ last'.err = "none")
       => ExactShape(view', last'.st)]_vars

\* ----------------------------------------------------------------------
\* C6
\* ----------------------------------------------------------------------
\* the step is an addStructure(S) that follows a resetStructure(), both
\* returning normally, and no path of S was registered before the reset
ResetThenDisjointAdd ==
  /\ last.op = "resetStructure" /\ last.err = "none"
  /\ last'.op = "addStructure" /\ last'.err = "none"
  /\ DOMAIN last'.st \cap Members(last.was) = {}

C7_Original ==
  /\ \A f \in Members(fields) : split(f, Dot) \in AccessorPaths(view)
  /\ \A p \in AccessorPaths(view) : join(p, Dot) \in Members(fields)

\* ----------------------------------------------------------------------
\* C8
\* ----------------------------------------------------------------------
\* C8: when addStructure(S) follows resetStructure(), every container
\* that was in the view before the reset and lies on the way to a field of
\* S is in the view after the add, with the identity it had before the
\* reset.
C8_Original ==
  [][(/\ last.op = "resetStructure" /\ last.err = "none"
      /\ last'.op = "addStructure" /\ last'.err = "none")
       => \A c \in last.conts :
            (\E q \in PathsOf(last'.st) : c[1] \in ProperPrefixes(q))
              => /\ c[1] \in ContainerPaths(view')
                 /\ view'[c[1]].id = c[2]]_vars

\* ----------------------------------------------------------------------
\* C9
\* ----------------------------------------------------------------------
\* C9: right after every setValues, addStructure, resetStructure and
\* setStructure call the transform cache holds no entry.
C9_Original ==
  last.op \in {"setValues", "addStructure", "resetStructure", "setStructure"}
    => DOMAIN cached = {}

\* ----------------------------------------------------------------------
\* C10
\* ----------------------------------------------------------------------
\* C10: a setValues call leaves the registry, the unused set, the
\* containers and the accessors as they were.
C10_SetValuesFrame ==
  [][last'.op = "setValues" =>
       /\ fields' = fields
       /\ unused' = unused
       /\ view' = view
       /\ nextId' = nextId
       /\ last'.err = "none"]_vars

\* setValues was called with fields registered, a container marked unused
\* and accessors installed
C10_Witness ==
  /\ last.op = "setValues"
  /\ fields # <<>>
  /\ unused # <<>>
  /\ AccessorPaths(view) # {}
  /\ ContainerPaths(view) # {}

\* ----------------------------------------------------------------------
\* C11
\* ----------------------------------------------------------------------
\* C11: a read of a field declared with a single negative index -k, with
\* k between 1 and the length of V, returns the element V[length - k].
C11_Original ==
  (/\ last.op = "read"
   /\ RangeOf(last.f).kind = "index"
   /\ RangeOf(last.f).a < 0
   /\ -RangeOf(last.f).a <= Len(values))
    => /\ last.err = "none"
       /\ last.res = Num(values[Len(values) + RangeOf(last.f).a + 1])

\* ----------------------------------------------------------------------
\* C12
\* ----------------------------------------------------------------------
\* C12: after removeUnusedStructure() returns, the unused set is empty and
\* no path that was in the unused set before the call leads to a
\* container of the view, whatever the depth of the path.
C12_Original ==
  [][(last'.op = "removeUnusedStructure" /\ last'.err = "none")
       => /\ unused' = <<>>
          /\ \A u \in Members(unused) : split(u, Dot) \notin ContainerPaths(view')]_vars

\* ----------------------------------------------------------------------
\* C15
\* ----------------------------------------------------------------------
\* the value the property at path p of the view reads as
ValueAt(p) == ReadField(State, join(p, Dot)).val

\* the state has a registered multi-segment field with a segment before
\* the leaf that exists in the view and reads as absent or falsy
FalsyOnWayOfRegistry ==
  \E f \in Members(fields) : \E p \in ProperPrefixes(split(f, Dot)) :
    /\ \A q \in ProperPrefixes(p) : q \in ContainerPaths(view)
    /\ p \in AccessorPaths(view)
    /\ ~Truthy(ValueAt(p))

\* a multi-segment path of the structure has a segment before the leaf
\* that exists in the view and reads as absent or falsy
FalsyOnWayOf(structure) ==
  \E r \in PathsOf(structure) : \E p \in ProperPrefixes(r) :
    /\ \A q \in ProperPrefixes(p) : q \in ContainerPaths(view)
    /\ p \in AccessorPaths(view)
    /\ ~Truthy(ValueAt(p))

\* C15: addStructure and resetStructure fail with a Path Resolution
\* Failure whenever a field path they resolve goes through an existing
\* segment before the leaf whose value is absent or falsy, and every
\* failure of addStructure, resetStructure and removeUnusedStructure is a
\* Path Resolution Failure.
C15_Original ==
  [][/\ (last'.op = "resetStructure" /\ FalsyOnWayOfRegistry)
          => last'.err = "OdoError"
     /\ (last'.op = "addStructure" /\ FalsyOnWayOf(last'.st))
          => last'.err = "OdoError"
     /\ (last'.op \in {"addStructure", "resetStructure", "removeUnusedStructure"}
           /\ last'.err # "none")
          => last'.err = "OdoError"]_vars

\* C15, the part about resetStructure alone
C15_ResetRaises ==
  [][(last'.op = "resetStructure" /\ FalsyOnWayOfRegistry)
       => last'.err = "OdoError"]_vars

\* ----------------------------------------------------------------------
\* C16
\* ----------------------------------------------------------------------
\* C16: after resetStructure() and then addStructure(S), both returning
\* normally, no container path on the way to a field of S is in the
\* unused set, whatever the depth of the field.
C16_Original ==
  [][(/\ last.op = "resetStructure" /\ last.err = "none"
      /\ last'.op = "addStructure" /\ last'.err = "none")
       => \A u \in Members(unused') : \A q \in PathsOf(last'.st) :
            split(u, Dot) \notin ProperPrefixes(q)]_vars

\* ----------------------------------------------------------------------
\* C18
\* ----------------------------------------------------------------------
\* the parent paths (path minus leaf) of the multi-segment fields of the
\* registry
ParentPaths(registry) ==
  {join(Front(split(f, Dot)), Dot) : f \in {g \in Members(registry) : includes(g, Dot)}}

\* C18: after resetStructure() returns normally the registry and the
\* cache are empty, no field path registered before has an accessor,
\* every segment before the leaf of a multi-segment field registered
\* before is a container of the view, and the unused set holds exactly
\* the parent paths of the multi-segment fields registered before.
C18_Original ==
  [][(last'.op = "resetStructure" /\ last'.err = "none")
       => /\ fields' = <<>>
          /\ cached' = <<>>
          /\ \A f \in Members(fields) : split(f, Dot) \notin AccessorPaths(view')
          /\ \A f \in Members(fields) : \A p \in ProperPrefixes(split(f, Dot)) :
               p \in ContainerPaths(view')
          /\ Members(unused') = ParentPaths(fields)]_vars

\* C18 for a call made when every field of the registry leads to its
\* accessor and every accessor is at a path of the registry
C18_FromConsistent ==
  [][(last'.op = "resetStructure" /\ last'.err = "none" /\ C7_Original)
       => /\ fields' = <<>>
          /\ cached' = <<>>
          /\ \A f \in Members(fields) : split(f, Dot) \notin AccessorPaths(view')
          /\ \A f \in Members(fields) : \A p \in ProperPrefixes(split(f, Dot)) :
               p \in ContainerPaths(view')
          /\ Members(unused') = ParentPaths(fields)]_vars

\* ----------------------------------------------------------------------
\* C19
\* ----------------------------------------------------------------------
\* C19: no addStructure and no setValues call invokes a transform function
\* or adds an entry to the transform cache.
C19_Original ==
  [][last'.op \in {"addStructure", "setValues"}
       => /\ ~last'.invoked
          /\ DOMAIN cached' \subseteq DOMAIN cached]_vars

\* C19, the part about setValues alone
C19_SetValuesLazy ==
  [][last'.op = "setValues" => ~last'.invoked /\ cached' = <<>>]_vars

\* ----------------------------------------------------------------------
\* C13
\* ----------------------------------------------------------------------
\* the segments that follow the container path p in the paths of the
\* structure
Following(structure, p) ==
  {q[Len(p) + 1] : q \in {r \in PathsOf(structure) : p \in ProperPrefixes(r)}}

\* C13: every container a successful addStructure(S) call creates is on
\* the way to a field of S; it is an array only if a segment that follows
\* it in S is purely numeric and a map only if a segment that follows it
\* is not, the leaf segment included.
C13_Original ==
  [][(last'.op = "addStructure" /\ last'.err = "none")
       => \A p \in {q \in ContainerPaths(view') : view'[q].id > nextId} :
            /\ Following(last'.st, p) # {}
            /\ view'[p].t = "arr" => \E seg \in Following(last'.st, p) : isFinite(seg)
            /\ view'[p].t = "obj" => \E seg \in Following(last'.st, p) : ~isFinite(seg)]_vars

\* C13 for the containers followed by a segment that is not the leaf
C13_BeforeInnerSegment ==
  [][(last'.op = "addStructure" /\ last'.err = "none")
       => \A p \in {q \in ContainerPaths(view') : view'[q].id > nextId} :
            \A r \in PathsOf(last'.st) :
              (p \in ProperPrefixes(r) /\ Len(r) > Len(p) + 1 /\ DOMAIN last'.st = {join(r, Dot)})
                => (view'[p].t = "arr" <=> isFinite(r[Len(p) + 1]))]_vars

\* ----------------------------------------------------------------------
\* C14
\* ----------------------------------------------------------------------
\* the value found in the export by following the segments of path p:
\* absent when a segment is missing
Found(tree, p) ==
  IF p \notin DOMAIN tree THEN Undefined
  ELSE CASE tree[p].t = "num" -> Num(tree[p].n)
         [] tree[p].t = "list" -> List(tree[p].s, 0)
         [] tree[p].t = "null" -> JsVal("null", 0, <<>>, 0, <<>>)
         [] OTHER -> Cont(p)

\* the keys a structure-shaped value has for the registry: the paths of
\* the fields and the maps on the way to them
ShapeOf(registry) ==
  {split(f, Dot) : f \in Members(registry)}
    \cup UNION {ProperPrefixes(split(f, Dot)) : f \in Members(registry)}

\* C14 (as claimed): the value export() returns has, at the path of every
\* registered field, the value a read of the field returns, maps on the
\* way to the fields, and no other key.
C14_Original ==
  last.op = "export" =>
    /\ \A f \in Members(fields) :
         SameValue(Found(last.res, split(f, Dot)), ReadField(State, f).val)
    /\ DOMAIN last.res \subseteq ShapeOf(fields)
    /\ \A p \in DOMAIN last.res \cap UNION {ProperPrefixes(split(f, Dot)) : f \in Members(fields)} :
         last.res[p].t = "obj"

\* the accessor of the field is in the view and every container on the
\* way to it is a map
ThroughMaps(f) ==
  /\ split(f, Dot) \in AccessorPaths(view)
  /\ \A p \in ProperPrefixes(split(f, Dot)) : p \in DOMAIN view /\ view[p].t = "obj"

\* C14 (amended): the value export() returns has, at the path of every
\* registered field that is reached through maps and reads as a number or
\* a list of numbers, the value the read returns, and no key for such a
\* field that reads as absent; its other keys are the containers of the
\* view, those kept from earlier structures included, and null for the
\* holes of the list containers.
C14_Snapshot ==
  last.op = "export" =>
    /\ last.err = "none"
    /\ \A f \in {g \in Members(fields) : ThroughMaps(g)} :
         LET r == ReadField(State, f).val
         IN  /\ r.t \in {"num", "list", "undef"}
                  => SameValue(Found(last.res, split(f, Dot)), r)
             /\ r.t = "undef" => split(f, Dot) \notin DOMAIN last.res
    /\ \A p \in DOMAIN last.res :
         \/ p \in AccessorPaths(view) /\ join(p, Dot) \in Members(fields)
         \/ p \in ContainerPaths(view) /\ last.res[p].t = view[p].t
         \/ /\ last.res[p].t = "null"
            /\ Front(p) \in ContainerPaths(view) /\ view[Front(p)].t = "arr"
    /\ \A p \in DOMAIN last.res : last.res[p].t \in {"num", "list", "null", "obj", "arr"}

\* export() leaves the values, the registry, the unused set and the view
\* as they were
C14_ExportFrame ==
  [][last'.op = "export" =>
       /\ values' = values /\ fields' = fields /\ unused' = unused /\ view' = view]_vars

\* export() returned nested maps with two fields, with a container
\* kept from an earlier structure in the view
C14_Witness ==
  /\ last.op = "export"
  /\ \E f \in Members(fields) :
       /\ ThroughMaps(f)
       /\ Len(split(f, Dot)) > 1
       /\ Found(last.res, split(f, Dot)).t = "num"
  /\ \E p \in DOMAIN last.res : last.res[p].t = "obj" /\ p \notin ShapeOf(fields)

\* ----------------------------------------------------------------------
\* C17
\* ----------------------------------------------------------------------
\* the orders in which a map can list the keys of the set
Orderings(keys) ==
  {o \in [1..Cardinality(keys) -> keys] : \A i, j \in DOMAIN o : o[i] = o[j] => i = j}

\* field f is a proper dotted prefix of field g
DottedPrefix(f, g) == split(f, Dot) \in ProperPrefixes(split(g, Dot))

\* C17: an addStructure(S) call on an empty registry registers the fields
\* of S in the order the sort gives for every order of the keys of S, and
\* never a field before a field it is a proper dotted prefix of.
C17_InstallOrder ==
  [][(last'.op = "addStructure" /\ fields = <<>>)
       => /\ \A o \in Orderings(DOMAIN last'.st) :
               fields' = SubSeq(SortEntries(o), 1, Len(fields'))
          /\ last'.err = "none" => Len(fields') = Cardinality(DOMAIN last'.st)
          /\ \A i, j \in DOMAIN fields' :
               DottedPrefix(fields'[i], fields'[j]) => j < i]_vars

\* a structure declaring a path and a path under it was installed on an
\* empty registry
C17_Witness ==
  /\ last.op = "addStructure" /\ last.err = "none"
  /\ last.was = <<>>
  /\ \E f, g \in DOMAIN last.st : DottedPrefix(f, g)
  /\ Len(fields) = 2

\* ----------------------------------------------------------------------
\* C20
\* ----------------------------------------------------------------------
\* what the slot of field f holds when addStructure(structure) installs
\* it: the container of the deeper paths the call declares under it, or
\* else what the slot reads as before the call
SlotAtInstall(f, structure) ==
  IF /\ \E g \in DOMAIN structure : DottedPrefix(f, g)
     /\ split(f, Dot) \notin AccessorPaths(view)
    THEN Cont(split(f, Dot))
    ELSE ReadField(State, f).val

\* C20: an addStructure call that installs a field with a bare function fn
\* captures what the slot held at that moment; every read of the field
\* invokes fn on the captured value, returns the result and stores
\* nothing in the transform cache; setValues does not change what was
\* captured.
C20_BareFunction ==
  [][/\ (last'.op = "addStructure" /\ last'.err = "none")
          => \A f \in {g \in DOMAIN last'.st : last'.st[g].kind = "fn"} :
               split(f, Dot) \in AccessorPaths(view')
                 => /\ view'[split(f, Dot)].range.fn = last'.st[f].fn
                    /\ view'[split(f, Dot)].range.existingValue
                         = SlotAtInstall(f, last'.st)
     /\ (last'.op = "read" /\ RangeOf(last'.f).kind = "fn")
          => /\ last'.err = "none"
             /\ last'.invoked
             /\ SameValue(last'.res,
                          ApplyFn(RangeOf(last'.f).fn, RangeOf(last'.f).existingValue, 0))
             /\ cached' = cached
     /\ last'.op = "setValues" => view' = view]_vars

\* a field declared with a bare function over an index field was read
\* after the values changed, and returned fn of the value captured at
\* declaration
C20_Witness ==
  /\ last.op = "read"
  /\ last.prev = "setValues"
  /\ RangeOf(last.f).kind = "fn"
  /\ RangeOf(last.f).existingValue.t = "num"
  /\ last.res = JsVal("num", 100 * RangeOf(last.f).existingValue.n, <<>>, nextRef, <<>>)
  /\ values # <<>> /\ values[1] # RangeOf(last.f).existingValue.n

\* ----------------------------------------------------------------------
\* C21
\* ----------------------------------------------------------------------
\* C21: a removeUnusedStructure() call leaves every registered field that
\* had its accessor in the view before the call with its accessor, and
\* after a setStructure(S) call every field of S that S declares no
\* dotted prefix of has its accessor in the view.
C21_Original ==
  [][/\ (last'.op = "removeUnusedStructure" /\ last'.err = "none")
          => \A f \in Members(fields) :
               split(f, Dot) \in AccessorPaths(view)
                 => split(f, Dot) \in AccessorPaths(view')
     /\ (last'.op = "setStructure" /\ last'.err = "none")
          => \A f \in DOMAIN last'.st :
               (\A g \in DOMAIN last'.st : ~DottedPrefix(g, f))
                 => split(f, Dot) \in AccessorPaths(view')]_vars

\* ----------------------------------------------------------------------
\* C22
\* ----------------------------------------------------------------------
\* C22: a resetStructure() call that raises the Path Resolution Failure
\* leaves the view, the registry, the unused set and the transform cache
\* as they were before the call.
C22_Original ==
  [][(last'.op = "resetStructure" /\ last'.err = "OdoError")
       => /\ view' = view
          /\ fields' = fields
          /\ unused' = unused
          /\ cached' = cached]_vars

\* C22, the part about the registry alone
C22_RegistryKept ==
  [][(last'.op = "resetStructure" /\ last'.err = "OdoError") => fields' = fields]_vars

\* ----------------------------------------------------------------------
\* C23
\* ----------------------------------------------------------------------
\* C23: whatever field names addStructure and setStructure declare, the
\* one of the holder included, the holder stays in place, every setValues
\* call succeeds and stores its values, a read of a field other than i
\* whose accessor is in the view succeeds, and resetStructure never fails
\* for lack of the internal state.
C23_Original ==
  [][/\ HolderError(State) = "none" => <<HolderKey>> \notin DOMAIN view'
     /\ last'.op = "setValues" => last'.err = "none" /\ values' \in HolderValuesPool
     /\ (last'.op = "read" /\ last'.f # HolderKey
           /\ split(last'.f, Dot) \in AccessorPaths(view))
          => last'.err = "none"
     /\ last'.op = "resetStructure" => last'.err \in {"none", "OdoError"}]_vars

\* C23 for the behaviours in which no structure declares the field i
C23_WithoutHolderField ==
  [][(HolderKey \notin Members(fields) /\ HolderKey \notin DOMAIN last'.st)
       => /\ <<HolderKey>> \notin DOMAIN view'
          /\ last'.op = "setValues" => last'.err = "none"
          /\ last'.op = "resetStructure" => last'.err \in {"none", "OdoError"}]_vars

====
